---- MODULE Spec2Model ----
(***************************************************************************)
(* UniEventry backend: the identity guard (middleware/auth.js), the        *)
(* registration / waitlist admission handler (routes/registration.js) and  *)
(* the attendance recorder (routes/attendance.js), the feedback and notes  *)
(* handlers (routes/feedback.js, routes/notes.js) and the report queries   *)
(* (routes/report.js, routes/events.js), over the relational tables of     *)
(* migrations/runMigrations.js.                                            *)
(*                                                                         *)
(* Every db.execute(...) is one atomic step of the database; the code that *)
(* runs between two awaits belongs to the step of the statement before it. *)
(* A table with an AUTO_INCREMENT id is a sequence: a row's id is its      *)
(* index, and rows are only ever appended.                                 *)
(*                                                                         *)
(* Schema: the handlers read events.max_participants (the events table of  *)
(* the second migration) and events.qr_secret (the events table of         *)
(* runMigrations.js), so an event row carries both columns.  registrations *)
(* has status, waitlist_position and UNIQUE KEY (event_id, student_id);    *)
(* attendance, feedback and notes have no unique key (runMigrations.js).   *)
(* A parameter compares equal to a column exactly when the two values are  *)
(* the same.  No route changes an account row: an account is deactivated   *)
(* by whoever administers the database, at any moment.                     *)
(***************************************************************************)
EXTENDS Integers, Sequences, FiniteSets, TLC

\* ------------------------------------------------------------------ bounds
MaxCapacity == 2        \* max_participants of event 1 is drawn from 1..MaxCapacity
NumStudents == 3        \* students 1..NumStudents of college 1
MaxAttendance == 2      \* attendance requests are admitted while fewer rows exist
MaxEvents == 3          \* POST /events is admitted while fewer events exist

\* SQL NULL / JS null in an integer column or variable
NULL == -1
\* a body value that express-validator's isInt() rejects
NotAnInt == -2

Slots == {1, 2}                     \* concurrently served requests
Colleges == {1, 2}
HomeStudents == 1..NumStudents      \* the students of college 1
OtherStudent == NumStudents + 1     \* one student of college 2
StudentIds == HomeStudents \cup {OtherStudent}
AdminIds == {1}
GoneStudent == NumStudents + 2      \* the id of a student row that was deleted
GoneAdmin == 2                      \* the id of an admin row that was deleted
EventIds == {1, 2}
Secrets == {"k1", "k2"}

\* ------------------------------------------------------------- the tables
VARIABLES students, admins, events, registrations, attendance, feedback, notes,
          certificates
\* ------------------------------------------------- the requests in flight
VARIABLES pc, req, user, loc, resp

tables == <<students, admins, events, registrations, attendance, feedback, notes,
            certificates>>
vars == <<students, admins, events, registrations, attendance, feedback, notes,
          certificates, pc, req, user, loc, resp>>

Indices(s, P(_)) == {i \in 1..Len(s) : P(s[i])}

\* ---------------------------------------------------------------- requests
\* The bearer credential: absent, not verifiable, or a signed payload
\* {id, college_id, role} as POST /auth/login issued it.
TokenOf(role, id, college_id) ==
    [state |-> "ok", id |-> id, role |-> role, college_id |-> college_id]
MissingToken == [state |-> "missing", id |-> NULL, role |-> "", college_id |-> NULL]
InvalidToken == [state |-> "invalid", id |-> NULL, role |-> "", college_id |-> NULL]

NoQr == [json |-> FALSE, event_id |-> NULL, secret |-> "", college_id |-> NULL]
QrData(e, k, c) == [json |-> TRUE, event_id |-> e, secret |-> k, college_id |-> c]

Request(op, token, event_id, student_id, qr) ==
    [op |-> op, token |-> token, event_id |-> event_id, student_id |-> student_id, qr |-> qr,
     rating |-> NULL, content |-> "", max_participants |-> NULL]
NoRequest == Request("", MissingToken, NULL, NULL, NoQr)

NoUser == [id |-> NULL, role |-> "", college_id |-> NULL]
NoLocals == [capacity |-> NULL, status |-> "", waitlist_position |-> NULL,
             attendees |-> <<>>, next |-> 1, generated |-> <<>>, failed |-> <<>>]
NoResponse == [status |-> 0]

Error(status, error) == [status |-> status, error |-> error]
Message(status, message) == [status |-> status, message |-> message]

\* -------------------------------------------------------------------- Init
InitStudents ==
    [i \in StudentIds |-> [college_id |-> IF i = OtherStudent THEN 2 ELSE 1, is_active |-> TRUE]]
InitAdmins == [i \in AdminIds |-> [college_id |-> 1, is_active |-> TRUE]]
InitEvents(c) ==
    [i \in EventIds |->
        IF i = 1 THEN [college_id |-> 1, max_participants |-> c, qr_secret |-> "k1"]
                 ELSE [college_id |-> 2, max_participants |-> 1, qr_secret |-> "k2"]]

Init ==
    /\ students = InitStudents
    /\ admins = InitAdmins
    /\ \E c \in 1..MaxCapacity : events = InitEvents(c)
    /\ registrations = <<>>
    /\ attendance = <<>>
    /\ feedback = <<>>
    /\ notes = <<>>
    /\ certificates = <<>>
    /\ pc = [p \in Slots |-> "idle"]
    /\ req = [p \in Slots |-> NoRequest]
    /\ user = [p \in Slots |-> NoUser]
    /\ loc = [p \in Slots |-> NoLocals]
    /\ resp = [p \in Slots |-> NoResponse]

\* ------------------------------------------------------- request plumbing
\* res.status(..).json(..): the request is answered and no statement follows
Respond(p, r) ==
    /\ pc' = [pc EXCEPT ![p] = "done"]
    /\ resp' = [resp EXCEPT ![p] = r]

Goto(p, label) ==
    /\ pc' = [pc EXCEPT ![p] = label]
    /\ UNCHANGED resp

\* GET /reports/<name>
ReportOps == {"event-popularity", "student-participation", "leaderboard",
              "attendance-percentage", "average-feedback", "top-students"}

\* the handler's synchronous prefix, up to its first db.execute
EnterHandler(p, r, u) ==
    CASE r.op = "register" ->
            IF u.role # "student"
            THEN Respond(p, Error(403, "Only students can register"))
            ELSE Goto(p, "reg_event")
      [] r.op = "manual" ->
            IF r.event_id = NotAnInt \/ r.student_id = NotAnInt
            THEN Respond(p, Error(400, "validation"))
            ELSE Goto(p, "man_select")
      [] r.op = "qr" ->
            IF u.role # "student"
            THEN Respond(p, Error(403, "Only students can check in"))
            ELSE IF ~r.qr.json
            THEN Respond(p, Error(500, "Failed to check in"))
            ELSE Goto(p, "qr_event")
      [] r.op = "feedback" ->
            IF u.role # "student"
            THEN Respond(p, Error(403, "Only students can submit feedback"))
            ELSE IF r.event_id = NotAnInt \/ r.rating \notin 1..5
            THEN Respond(p, Error(400, "validation"))
            ELSE Goto(p, "fb_attendance")
      [] r.op = "notes" ->
            IF u.role # "student"
            THEN Respond(p, Error(403, "Only students can create notes"))
            ELSE IF r.event_id = NotAnInt \/ r.content = ""
            THEN Respond(p, Error(400, "validation"))
            ELSE Goto(p, "note_registration")
      [] r.op \in ReportOps -> Goto(p, "report")
      [] r.op = "event" ->
            IF r.max_participants = NotAnInt \/ r.max_participants < 1
            THEN Respond(p, Error(400, "validation"))
            ELSE Goto(p, "ev_insert")
      [] r.op = "bulk" ->
            IF r.event_id = NotAnInt
            THEN Respond(p, Error(400, "validation"))
            ELSE Goto(p, "bulk_select")

\* requireRole(['admin']) is mounted on POST /attendance/manual, on POST
\* /events, on POST /admin/bulk-certificates and on the reports; the other
\* routes modelled here have no requireRole
RolesOf_any(op) == {"student", "admin", "super_admin"}
RolesOf(op) ==
    IF op \in {"manual", "event", "bulk"} \/ op \in ReportOps
    THEN {"admin"}
    ELSE {"student", "admin", "super_admin"}

\* requireSameCollege: SELECT college_id, is_active FROM admins|students WHERE id = ?
AccountRows(u) ==
    IF u.role \in {"admin", "super_admin"}
    THEN IF u.id \in DOMAIN admins THEN {admins[u.id]} ELSE {}
    ELSE IF u.role = "student"
    THEN IF u.id \in DOMAIN students THEN {students[u.id]} ELSE {}
    ELSE {}

RequireSameCollege_anyactive(p, r, u) ==
    LET rows == AccountRows(u) IN
    IF u.role \notin {"admin", "super_admin", "student"}
    THEN user' = [user EXCEPT ![p] = u] /\ EnterHandler(p, r, u)
    ELSE IF rows = {}
    THEN /\ user' = [user EXCEPT ![p] = u]
         /\ Respond(p, Error(403, IF u.role = "student"
                                  THEN "Student account not found or inactive"
                                  ELSE "Admin account not found or inactive"))
    ELSE LET live == [u EXCEPT !.college_id = (CHOOSE a \in rows : TRUE).college_id]
         IN  user' = [user EXCEPT ![p] = live] /\ EnterHandler(p, r, live)

RequireSameCollege_payload(p, r, u) ==
    LET rows == AccountRows(u) IN
    IF u.role \notin {"admin", "super_admin", "student"}
    THEN user' = [user EXCEPT ![p] = u] /\ EnterHandler(p, r, u)
    ELSE IF rows = {} \/ \E a \in rows : ~a.is_active
    THEN /\ user' = [user EXCEPT ![p] = u]
         /\ Respond(p, Error(403, IF u.role = "student"
                                  THEN "Student account not found or inactive"
                                  ELSE "Admin account not found or inactive"))
    ELSE user' = [user EXCEPT ![p] = u] /\ EnterHandler(p, r, u)

RequireSameCollege(p, r, u) ==
    LET rows == AccountRows(u) IN
    IF u.role \notin {"admin", "super_admin", "student"}
    THEN user' = [user EXCEPT ![p] = u] /\ EnterHandler(p, r, u)
    ELSE IF rows = {} \/ \E a \in rows : ~a.is_active
    THEN /\ user' = [user EXCEPT ![p] = u]
         /\ Respond(p, Error(403, IF u.role = "student"
                                  THEN "Student account not found or inactive"
                                  ELSE "Admin account not found or inactive"))
    ELSE LET live == [u EXCEPT !.college_id = (CHOOSE a \in rows : TRUE).college_id]
         IN  user' = [user EXCEPT ![p] = live] /\ EnterHandler(p, r, live)

\* A request arrives: authenticateToken, requireRole, then requireSameCollege
\* with its SELECT of the live account, then the handler up to its first
\* statement.  Nothing before that SELECT reads or writes shared state.
Start(p, r) ==
    /\ pc[p] = "idle"
    /\ req' = [req EXCEPT ![p] = r]
    /\ loc' = [loc EXCEPT ![p] = NoLocals]
    /\ UNCHANGED tables
    /\ IF r.token.state = "missing"
       THEN Respond(p, Error(401, "Access token required")) /\ UNCHANGED user
       ELSE IF r.token.state = "invalid"
       THEN Respond(p, Error(403, "Invalid or expired token")) /\ UNCHANGED user
       ELSE LET decoded == [id |-> r.token.id, role |-> r.token.role,
                            college_id |-> r.token.college_id]
            IN  IF r.token.role \notin RolesOf(r.op)
                THEN /\ user' = [user EXCEPT ![p] = decoded]
                     /\ Respond(p, Error(403, "Insufficient permissions"))
                ELSE RequireSameCollege(p, r, decoded)

\* ------------------------------------------- POST /registrations (admit)
\* SELECT max_participants FROM events WHERE id = ? AND college_id = ?
EventsInCollege_anycollege(event_id, college_id) ==
    {e \in DOMAIN events : e = event_id}
EventsInCollege(event_id, college_id) ==
    {e \in DOMAIN events : e = event_id /\ events[e].college_id = college_id}

RegSelectEvent(p) ==
    /\ pc[p] = "reg_event"
    /\ UNCHANGED <<tables, req, user>>
    /\ LET found == EventsInCollege(req[p].event_id, user[p].college_id)
       IN  IF found = {}
           THEN Respond(p, Error(404, "Event not found")) /\ UNCHANGED loc
           ELSE /\ loc' = [loc EXCEPT ![p].capacity =
                                events[CHOOSE e \in found : TRUE].max_participants]
                /\ Goto(p, "reg_count")

\* SELECT COUNT(*) FROM registrations WHERE event_id = ? AND status = "registered"
RegisteredCount_waitlisted(regs, event_id) ==
    Cardinality(Indices(regs, LAMBDA r : r.event_id = event_id /\ r.status = "waitlisted"))
RegisteredCount_net(regs, event_id) ==
    Cardinality(Indices(regs, LAMBDA r : r.event_id = event_id /\ r.status = "registered"))
        - Cardinality(Indices(regs, LAMBDA r : r.event_id = event_id /\ r.status = "waitlisted"))
RegisteredCount(regs, event_id) ==
    Cardinality(Indices(regs, LAMBDA r : r.event_id = event_id /\ r.status = "registered"))

\* registeredCount[0].count >= capacity
IsFull_gt(count, capacity) == count > capacity
IsFull(count, capacity) == count >= capacity

RegCount(p) ==
    /\ pc[p] = "reg_count"
    /\ UNCHANGED <<tables, req, user>>
    /\ IF IsFull(RegisteredCount(registrations, req[p].event_id), loc[p].capacity)
       THEN /\ loc' = [loc EXCEPT ![p].status = "waitlisted"]
            /\ Goto(p, "reg_maxpos")
       ELSE /\ loc' = [loc EXCEPT ![p].status = "registered", ![p].waitlist_position = NULL]
            /\ Goto(p, "reg_insert")

\* SELECT MAX(waitlist_position) FROM registrations WHERE event_id = ? AND status = "waitlisted"
SetMax(S) == CHOOSE m \in S : \A n \in S : n <= m
MaxWaitlistPosition(regs, event_id) ==
    LET ps == {regs[i].waitlist_position :
                 i \in Indices(regs, LAMBDA r : r.event_id = event_id /\ r.status = "waitlisted")}
                 \ {NULL}
    IN  IF ps = {} THEN NULL ELSE SetMax(ps)

\* (maxPosition[0].max_pos || 0) + 1
NextPosition_same(max_pos) == IF max_pos = NULL \/ max_pos = 0 THEN 1 ELSE max_pos
NextPosition(max_pos) == (IF max_pos = NULL \/ max_pos = 0 THEN 0 ELSE max_pos) + 1

RegMaxPos(p) ==
    /\ pc[p] = "reg_maxpos"
    /\ UNCHANGED <<tables, req, user>>
    /\ loc' = [loc EXCEPT ![p].waitlist_position =
                    NextPosition(MaxWaitlistPosition(registrations, req[p].event_id))]
    /\ Goto(p, "reg_insert")

\* UNIQUE KEY unique_registration (event_id, student_id)
ViolatesUniqueRegistration_off(regs, event_id, student_id) == FALSE
ViolatesUniqueRegistration(regs, event_id, student_id) ==
    \E i \in 1..Len(regs) : regs[i].event_id = event_id /\ regs[i].student_id = student_id

\* INSERT INTO registrations (college_id, event_id, student_id, status, waitlist_position)
RegInsert_recount(p) ==
    /\ pc[p] = "reg_insert"
    /\ UNCHANGED <<certificates, students, admins, events, attendance, feedback, notes, req, user, loc>>
    /\ IF ViolatesUniqueRegistration(registrations, req[p].event_id, user[p].id)
       THEN /\ UNCHANGED registrations
            /\ Respond(p, Error(500, "Failed to register"))
       ELSE LET full == IsFull(RegisteredCount(registrations, req[p].event_id), loc[p].capacity)
                status == IF full THEN "waitlisted" ELSE "registered"
                position == IF full
                            THEN NextPosition(MaxWaitlistPosition(registrations, req[p].event_id))
                            ELSE NULL
            IN  /\ registrations' = Append(registrations,
                        [college_id |-> user[p].college_id, event_id |-> req[p].event_id,
                         student_id |-> user[p].id, status |-> status,
                         waitlist_position |-> position])
                /\ Respond(p, [status |-> 200, message |-> "Registration " \o status,
                               waitlist_position |-> position])

RegInsert_reposition(p) ==
    /\ pc[p] = "reg_insert"
    /\ UNCHANGED <<certificates, students, admins, events, attendance, feedback, notes, req, user, loc>>
    /\ IF ViolatesUniqueRegistration(registrations, req[p].event_id, user[p].id)
       THEN /\ UNCHANGED registrations
            /\ Respond(p, Error(500, "Failed to register"))
       ELSE LET position == IF loc[p].status = "waitlisted"
                            THEN NextPosition(MaxWaitlistPosition(registrations, req[p].event_id))
                            ELSE NULL
            IN  /\ registrations' = Append(registrations,
                        [college_id |-> user[p].college_id, event_id |-> req[p].event_id,
                         student_id |-> user[p].id, status |-> loc[p].status,
                         waitlist_position |-> position])
                /\ Respond(p, [status |-> 200, message |-> "Registration " \o loc[p].status,
                               waitlist_position |-> position])

RegInsert_front(p) ==
    /\ pc[p] = "reg_insert"
    /\ UNCHANGED <<certificates, students, admins, events, attendance, feedback, notes, req, user, loc>>
    /\ IF ViolatesUniqueRegistration(registrations, req[p].event_id, user[p].id)
       THEN /\ UNCHANGED registrations
            /\ Respond(p, Error(500, "Failed to register"))
       ELSE /\ registrations' =
                    <<[college_id |-> user[p].college_id, event_id |-> req[p].event_id,
                       student_id |-> user[p].id, status |-> loc[p].status,
                       waitlist_position |-> loc[p].waitlist_position]>> \o registrations
            /\ Respond(p, [status |-> 200, message |-> "Registration " \o loc[p].status,
                           waitlist_position |-> loc[p].waitlist_position])

RegInsert(p) ==
    /\ pc[p] = "reg_insert"
    /\ UNCHANGED <<certificates, students, admins, events, attendance, feedback, notes, req, user, loc>>
    /\ IF ViolatesUniqueRegistration(registrations, req[p].event_id, user[p].id)
       THEN /\ UNCHANGED registrations
            /\ Respond(p, Error(500, "Failed to register"))
       ELSE /\ registrations' = Append(registrations,
                    [college_id |-> user[p].college_id, event_id |-> req[p].event_id,
                     student_id |-> user[p].id, status |-> loc[p].status,
                     waitlist_position |-> loc[p].waitlist_position])
            /\ Respond(p, [status |-> 200, message |-> "Registration " \o loc[p].status,
                           waitlist_position |-> loc[p].waitlist_position])

\* ------------------------------------------------ POST /attendance/manual
\* SELECT id FROM registrations WHERE event_id = ? AND student_id = ? AND status = "registered"
ManualRegistration_anystudent(regs, event_id, student_id) ==
    Indices(regs, LAMBDA r : r.event_id = event_id /\ r.status = "registered")
ManualRegistration_anystatus(regs, event_id, student_id) ==
    Indices(regs, LAMBDA r : r.event_id = event_id /\ r.student_id = student_id)
ManualRegistration(regs, event_id, student_id) ==
    Indices(regs, LAMBDA r : r.event_id = event_id /\ r.student_id = student_id
                             /\ r.status = "registered")

ManSelect_writefirst(p) ==
    /\ pc[p] = "man_select"
    /\ UNCHANGED <<certificates, students, admins, events, registrations, feedback, notes, req, user, loc>>
    /\ attendance' = Append(attendance,
            [college_id |-> user[p].college_id, event_id |-> req[p].event_id,
             student_id |-> req[p].student_id])
    /\ IF ManualRegistration(registrations, req[p].event_id, req[p].student_id) = {}
       THEN Respond(p, Error(400, "Student not registered for event"))
       ELSE Respond(p, Message(200, "Attendance marked successfully"))

ManSelect(p) ==
    /\ pc[p] = "man_select"
    /\ UNCHANGED <<tables, req, user, loc>>
    /\ IF ManualRegistration(registrations, req[p].event_id, req[p].student_id) = {}
       THEN Respond(p, Error(400, "Student not registered for event"))
       ELSE Goto(p, "man_insert")

\* INSERT INTO attendance (college_id, event_id, student_id)
ManInsert_replace(p) ==
    /\ pc[p] = "man_insert"
    /\ UNCHANGED <<certificates, students, admins, events, registrations, feedback, notes, req, user, loc>>
    /\ attendance' = <<[college_id |-> user[p].college_id, event_id |-> req[p].event_id,
                        student_id |-> req[p].student_id]>>
    /\ Respond(p, Message(200, "Attendance marked successfully"))

ManInsert(p) ==
    /\ pc[p] = "man_insert"
    /\ UNCHANGED <<certificates, students, admins, events, registrations, feedback, notes, req, user, loc>>
    /\ attendance' = Append(attendance,
            [college_id |-> user[p].college_id, event_id |-> req[p].event_id,
             student_id |-> req[p].student_id])
    /\ Respond(p, Message(200, "Attendance marked successfully"))

\* ---------------------------------------------- POST /attendance/qr-checkin
\* SELECT id FROM events WHERE id = ? AND qr_secret = ? AND college_id = ?
QrEventMatches_nosecret(e, qr) ==
    e = qr.event_id /\ events[e].college_id = qr.college_id
QrEventMatches_nocollege(e, qr) ==
    e = qr.event_id /\ events[e].qr_secret = qr.secret
QrEventMatches(e, qr) ==
    e = qr.event_id /\ events[e].qr_secret = qr.secret /\ events[e].college_id = qr.college_id

QrSelectEvent(p) ==
    /\ pc[p] = "qr_event"
    /\ UNCHANGED <<tables, req, user, loc>>
    /\ IF {e \in DOMAIN events : QrEventMatches(e, req[p].qr)} = {}
       THEN Respond(p, Error(400, "Invalid QR code"))
       ELSE Goto(p, "qr_existing")

\* SELECT id FROM attendance WHERE event_id = ? AND student_id = ?
ExistingAttendance_none(att, event_id, student_id) == {}
ExistingAttendance(att, event_id, student_id) ==
    Indices(att, LAMBDA a : a.event_id = event_id /\ a.student_id = student_id)

QrExisting(p) ==
    /\ pc[p] = "qr_existing"
    /\ UNCHANGED <<tables, req, user, loc>>
    /\ IF ExistingAttendance(attendance, req[p].qr.event_id, user[p].id) # {}
       THEN Respond(p, Error(400, "Already checked in"))
       ELSE Goto(p, "qr_insert")

\* INSERT INTO attendance (college_id, event_id, student_id)
QrInsert(p) ==
    /\ pc[p] = "qr_insert"
    /\ UNCHANGED <<certificates, students, admins, events, registrations, feedback, notes, req, user, loc>>
    /\ attendance' = Append(attendance,
            [college_id |-> user[p].college_id, event_id |-> req[p].qr.event_id,
             student_id |-> user[p].id])
    /\ Respond(p, Message(200, "Checked in successfully"))

\* ------------------------------------------------------------ POST /feedback
\* SELECT id FROM attendance WHERE event_id = ? AND student_id = ? AND college_id = ?
FeedbackAttendance_anycollege(att, event_id, student_id, college_id) ==
    Indices(att, LAMBDA a : a.event_id = event_id /\ a.student_id = student_id)
FeedbackAttendance(att, event_id, student_id, college_id) ==
    Indices(att, LAMBDA a : a.event_id = event_id /\ a.student_id = student_id
                             /\ a.college_id = college_id)

FbSelectAttendance(p) ==
    /\ pc[p] = "fb_attendance"
    /\ UNCHANGED <<tables, req, user, loc>>
    /\ IF FeedbackAttendance(attendance, req[p].event_id, user[p].id, user[p].college_id) = {}
       THEN Respond(p, Error(400, "Can only provide feedback for events you attended"))
       ELSE Goto(p, "fb_existing")

\* SELECT id FROM feedback WHERE event_id = ? AND student_id = ?
ExistingFeedback_none(fb, event_id, student_id) == {}
ExistingFeedback(fb, event_id, student_id) ==
    Indices(fb, LAMBDA f : f.event_id = event_id /\ f.student_id = student_id)

FbSelectExisting(p) ==
    /\ pc[p] = "fb_existing"
    /\ UNCHANGED <<tables, req, user, loc>>
    /\ IF ExistingFeedback(feedback, req[p].event_id, user[p].id) # {}
       THEN Respond(p, Error(400, "Feedback already submitted for this event"))
       ELSE Goto(p, "fb_insert")

\* INSERT INTO feedback (college_id, event_id, student_id, rating, ...)
FbInsert(p) ==
    /\ pc[p] = "fb_insert"
    /\ UNCHANGED <<certificates, students, admins, events, registrations, attendance, notes, req, user, loc>>
    /\ feedback' = Append(feedback,
            [college_id |-> user[p].college_id, event_id |-> req[p].event_id,
             student_id |-> user[p].id, rating |-> req[p].rating])
    /\ Respond(p, [status |-> 201, message |-> "Feedback submitted successfully",
                   feedback_id |-> Len(feedback) + 1])

\* --------------------------------------------------------------- POST /notes
\* SELECT id FROM registrations WHERE event_id = ? AND student_id = ? AND college_id = ?
NoteRegistration_anyevent(regs, event_id, student_id, college_id) ==
    Indices(regs, LAMBDA r : r.student_id = student_id /\ r.college_id = college_id)
NoteRegistration(regs, event_id, student_id, college_id) ==
    Indices(regs, LAMBDA r : r.event_id = event_id /\ r.student_id = student_id
                             /\ r.college_id = college_id)

NoteSelectRegistration(p) ==
    /\ pc[p] = "note_registration"
    /\ UNCHANGED <<tables, req, user, loc>>
    /\ IF NoteRegistration(registrations, req[p].event_id, user[p].id, user[p].college_id) = {}
       THEN Respond(p, Error(400, "Can only create notes for events you are registered for"))
       ELSE Goto(p, "note_existing")

\* SELECT id FROM notes WHERE event_id = ? AND student_id = ?
ExistingNote_none(ns, event_id, student_id) == {}
ExistingNote(ns, event_id, student_id) ==
    Indices(ns, LAMBDA n : n.event_id = event_id /\ n.student_id = student_id)

NoteSelectExisting(p) ==
    /\ pc[p] = "note_existing"
    /\ UNCHANGED <<tables, req, user, loc>>
    /\ IF ExistingNote(notes, req[p].event_id, user[p].id) # {}
       THEN Goto(p, "note_update")
       ELSE Goto(p, "note_insert")

\* UPDATE notes SET content = ? WHERE event_id = ? AND student_id = ?
NoteUpdate(p) ==
    /\ pc[p] = "note_update"
    /\ UNCHANGED <<certificates, students, admins, events, registrations, attendance, feedback, req, user, loc>>
    /\ notes' = [i \in 1..Len(notes) |->
                    IF notes[i].event_id = req[p].event_id /\ notes[i].student_id = user[p].id
                    THEN [notes[i] EXCEPT !.content = req[p].content]
                    ELSE notes[i]]
    /\ Respond(p, Message(200, "Note updated successfully"))

\* INSERT INTO notes (event_id, student_id, content)
NoteInsert(p) ==
    /\ pc[p] = "note_insert"
    /\ UNCHANGED <<certificates, students, admins, events, registrations, attendance, feedback, req, user, loc>>
    /\ notes' = Append(notes,
            [event_id |-> req[p].event_id, student_id |-> user[p].id,
             content |-> req[p].content])
    /\ Respond(p, Message(200, "Note created successfully"))

\* ---------------------------------------------------------- GET /reports/...
\* const limit = parseInt(req.query.limit) || 10, for a request without ?limit
DefaultLimit == 10
\* LIMIT 3 of top-students
TopStudentsLimit == 3

\* FROM events e ... WHERE e.college_id = ?
EventsOfCollege_all(c) == DOMAIN events
EventsOfCollege(c) == {e \in DOMAIN events : events[e].college_id = c}
\* FROM students s ... WHERE s.college_id = ?
StudentsOfCollege(c) == {s \in DOMAIN students : students[s].college_id = c}

\* SELECT e.id, COUNT(r.id) FROM events e LEFT JOIN registrations r
\*   ON e.id = r.event_id AND r.status = "registered" ... GROUP BY e.id
EventPopularity(c) ==
    {[id |-> e, registrations |-> RegisteredCount(registrations, e)] : e \in EventsOfCollege(c)}

\* SELECT s.id, COUNT(a.id) FROM students s LEFT JOIN attendance a
\*   ON s.id = a.student_id AND s.college_id = a.college_id ... GROUP BY s.id
StudentParticipation(c) ==
    {[id |-> s,
      events_attended |->
          Cardinality(Indices(attendance, LAMBDA a : a.student_id = s
                                            /\ a.college_id = students[s].college_id))] :
        s \in StudentsOfCollege(c)}

\* ORDER BY events_attended DESC LIMIT n: any n rows that no omitted row beats
TopRows(rows, n) ==
    {T \in SUBSET rows :
        /\ Cardinality(T) = IF Cardinality(rows) < n THEN Cardinality(rows) ELSE n
        /\ \A t \in T, r \in rows \ T : t.events_attended >= r.events_attended}

\* SELECT e.id, COUNT(r.id), COUNT(a.id), (COUNT(a.id) / COUNT(r.id)) * 100
\*   FROM events e LEFT JOIN registrations r ON ... LEFT JOIN attendance a
\*   ON e.id = a.event_id ... GROUP BY e.id
\* Both counts count the rows of the double join, so the quotient is exact;
\* a division by zero is NULL.
AttendancePercentage(c) ==
    {LET R == RegisteredCount(registrations, e)
         A == Cardinality(Indices(attendance, LAMBDA a : a.event_id = e))
         registered == R * (IF A = 0 THEN 1 ELSE A)
         attended == A * (IF R = 0 THEN 1 ELSE R)
     IN  [id |-> e, registered_count |-> registered, attended_count |-> attended,
          attendance_percentage |->
              IF registered = 0 THEN NULL ELSE (attended * 100) \div registered] :
        e \in EventsOfCollege(c)}

RECURSIVE RatingSum(_, _)
RatingSum(fb, I) ==
    IF I = {} THEN 0
    ELSE LET i == CHOOSE j \in I : TRUE IN fb[i].rating + RatingSum(fb, I \ {i})

\* SELECT e.id, AVG(f.rating), COUNT(f.id) FROM events e LEFT JOIN feedback f
\*   ON e.id = f.event_id ... GROUP BY e.id
\* AVG is rating_sum / feedback_count, and NULL over no row.
AverageFeedback(c) ==
    {LET F == Indices(feedback, LAMBDA f : f.event_id = e)
     IN  [id |-> e, rating_sum |-> RatingSum(feedback, F), feedback_count |-> Cardinality(F)] :
        e \in EventsOfCollege(c)}

\* SELECT s.id, COUNT(a.id) FROM students s JOIN attendance a
\*   ON s.id = a.student_id ... GROUP BY s.id ... LIMIT 3
TopStudents(c) ==
    TopRows({[id |-> s,
              events_attended |->
                  Cardinality(Indices(attendance, LAMBDA a : a.student_id = s))] :
                s \in {t \in StudentsOfCollege(c) :
                          Indices(attendance, LAMBDA a : a.student_id = t) # {}}},
            TopStudentsLimit)

\* the row sets the report's query may return
ReportResults(op, c) ==
    CASE op = "event-popularity" -> {EventPopularity(c)}
      [] op = "student-participation" -> {StudentParticipation(c)}
      [] op = "leaderboard" -> TopRows(StudentParticipation(c), DefaultLimit)
      [] op = "attendance-percentage" -> {AttendancePercentage(c)}
      [] op = "average-feedback" -> {AverageFeedback(c)}
      [] op = "top-students" -> TopStudents(c)

\* res.json({ report }), res.json({ leaderboard }), res.json({ top_students })
ReportBody(op, rows) ==
    CASE op = "leaderboard" -> [status |-> 200, leaderboard |-> rows]
      [] op = "top-students" -> [status |-> 200, top_students |-> rows]
      [] OTHER -> [status |-> 200, report |-> rows]

ReportSelect(p) ==
    /\ pc[p] = "report"
    /\ UNCHANGED <<tables, req, user, loc>>
    /\ \E rows \in ReportResults(req[p].op, user[p].college_id) :
          Respond(p, ReportBody(req[p].op, rows))

\* -------------------------------------------------------------- POST /events
\* INSERT INTO events (college_id, ..., max_participants, created_by): the new
\* row's id is the next AUTO_INCREMENT value and its qr_secret is not set
EventInsert(p) ==
    /\ pc[p] = "ev_insert"
    /\ UNCHANGED <<certificates, students, admins, registrations, attendance, feedback, notes, req, user, loc>>
    /\ LET id == Cardinality(DOMAIN events) + 1
       IN  /\ events' = [e \in DOMAIN events \cup {id} |->
                            IF e = id
                            THEN [college_id |-> user[p].college_id,
                                  max_participants |-> req[p].max_participants,
                                  qr_secret |-> ""]
                            ELSE events[e]]
           /\ Respond(p, [status |-> 201, message |-> "Event created successfully",
                          event_id |-> id])

\* ------------------------------------------- POST /admin/bulk-certificates
\* UNIQUE KEY unique_certificate (event_id, student_id)
ViolatesUniqueCertificate(certs, event_id, student_id) ==
    \E i \in 1..Len(certs) :
        certs[i].event_id = event_id /\ certs[i].student_id = student_id

\* SELECT a.id AS attendance_id, a.student_id, ... FROM attendance a
\* JOIN students s .. JOIN events e .. JOIN colleges c ..
\* LEFT JOIN certificates cert ON a.event_id = cert.event_id AND
\* a.student_id = cert.student_id
\* WHERE a.event_id = ? AND a.college_id = ? AND cert.id IS NULL:
\* one row per attendance row, in the order of the attendance ids
Attendees(att, certs, event_id, college_id) ==
    LET lacks(i) ==
            /\ att[i].event_id = event_id
            /\ att[i].college_id = college_id
            /\ att[i].student_id \in DOMAIN students
            /\ att[i].event_id \in DOMAIN events
            /\ att[i].college_id \in Colleges
            /\ ~ViolatesUniqueCertificate(certs, att[i].event_id, att[i].student_id)
        ids == SelectSeq([i \in 1..Len(att) |-> i], lacks)
    IN  [k \in 1..Len(ids) |->
            [attendance_id |-> ids[k], student_id |-> att[ids[k]].student_id]]

BulkSelect(p) ==
    /\ pc[p] = "bulk_select"
    /\ UNCHANGED <<tables, req, user>>
    /\ LET attendees == Attendees(attendance, certificates, req[p].event_id,
                                  user[p].college_id)
       IN  IF Len(attendees) = 0
           THEN /\ Respond(p, Error(400,
                        "No attendees found or all certificates already generated"))
                /\ UNCHANGED loc
           ELSE /\ loc' = [loc EXCEPT ![p].attendees = attendees, ![p].next = 1,
                                      ![p].generated = <<>>, ![p].failed = <<>>]
                /\ Goto(p, "bulk_insert")

\* one pass of for (const attendee of attendees): INSERT INTO certificates
\* inside the loop's own try; the statement is executed, or it is rejected (by
\* unique_certificate, or for any other reason) and the catch records the
\* attendee as failed.  After the last attendee res.json sends the two lists.
BulkInsert(p) ==
    /\ pc[p] = "bulk_insert"
    /\ UNCHANGED <<students, admins, events, registrations, attendance, feedback, notes,
                   req, user>>
    /\ LET attendee == loc[p].attendees[loc[p].next]
           certificateId == Len(certificates) + 1
       IN  \E inserted \in BOOLEAN :
            /\ inserted => ~ViolatesUniqueCertificate(certificates, req[p].event_id,
                                                      attendee.student_id)
            /\ certificates' =
                    IF inserted
                    THEN Append(certificates,
                            [college_id |-> user[p].college_id,
                             event_id |-> req[p].event_id,
                             student_id |-> attendee.student_id,
                             attendance_id |-> attendee.attendance_id,
                             certificate_id |-> certificateId])
                    ELSE certificates
            /\ LET generated == IF inserted
                                THEN Append(loc[p].generated,
                                        [student_id |-> attendee.student_id,
                                         certificate_id |-> certificateId])
                                ELSE loc[p].generated
                   failed == IF inserted
                             THEN loc[p].failed
                             ELSE Append(loc[p].failed, [student_id |-> attendee.student_id])
               IN  /\ loc' = [loc EXCEPT ![p].next = loc[p].next + 1,
                                         ![p].generated = generated,
                                         ![p].failed = failed]
                   /\ IF loc[p].next = Len(loc[p].attendees)
                      THEN Respond(p, [status |-> 200,
                                       message |-> "Bulk certificate generation completed",
                                       generated |-> Len(generated),
                                       failed |-> Len(failed),
                                       details |-> [generated |-> generated,
                                                    failed |-> failed]])
                      ELSE Goto(p, "bulk_insert")

\* ------------------------------------------------------- storage failures
\* the 500 of the handler's catch block
FailureOf(op) ==
    CASE op = "register" -> Error(500, "Failed to register")
      [] op = "manual" -> Error(500, "Failed to mark attendance")
      [] op = "qr" -> Error(500, "Failed to check in")
      [] op = "feedback" -> Error(500, "Failed to submit feedback")
      [] op = "notes" -> Error(500, "Internal server error")
      [] op = "event" -> Error(500, "Failed to create event")
      [] op = "bulk" -> Error(500, "Failed to generate bulk certificates")
      [] op = "leaderboard" -> Error(500, "Failed to generate leaderboard")
      [] op = "top-students" -> Error(500, "Failed to generate top students report")
      [] OTHER -> Error(500, "Failed to generate report")

\* the statement the handler is about to execute is rejected by the database:
\* it has no effect, and the handler's catch block answers.  The INSERT of the
\* bulk-certificate loop has a try of its own (BulkInsert).
StorageFailure(p) ==
    /\ pc[p] \notin {"idle", "done", "bulk_insert"}
    /\ UNCHANGED <<tables, req, user, loc>>
    /\ Respond(p, FailureOf(req[p].op))

\* the SELECT of requireSameCollege is rejected by the database
GuardFailure(p, r) ==
    /\ pc[p] = "idle"
    /\ r.token.state = "ok"
    /\ r.token.role \in RolesOf(r.op)
    /\ req' = [req EXCEPT ![p] = r]
    /\ user' = [user EXCEPT ![p] = [id |-> r.token.id, role |-> r.token.role,
                                    college_id |-> r.token.college_id]]
    /\ UNCHANGED <<tables, loc>>
    /\ Respond(p, Error(500, "Internal server error"))

\* ------------------------------------------------------------- the accounts
\* UPDATE students|admins SET is_active = false WHERE id = ?, issued by the
\* database's administrator: the application has no route for it.
DeactivateStudent(i) ==
    /\ students[i].is_active
    /\ students' = [students EXCEPT ![i].is_active = FALSE]
    /\ UNCHANGED <<certificates, admins, events, registrations, attendance, feedback, notes,
                   pc, req, user, loc, resp>>

DeactivateAdmin(a) ==
    /\ admins[a].is_active
    /\ admins' = [admins EXCEPT ![a].is_active = FALSE]
    /\ UNCHANGED <<certificates, students, events, registrations, attendance, feedback, notes,
                   pc, req, user, loc, resp>>

\* the response has been sent; the slot serves the next request
Finish(p) ==
    /\ pc[p] = "done"
    /\ pc' = [pc EXCEPT ![p] = "idle"]
    /\ req' = [req EXCEPT ![p] = NoRequest]
    /\ user' = [user EXCEPT ![p] = NoUser]
    /\ loc' = [loc EXCEPT ![p] = NoLocals]
    /\ resp' = [resp EXCEPT ![p] = NoResponse]
    /\ UNCHANGED tables

\* ------------------------------------------------------------ the clients
\* Credentials as POST /auth/login signs them for the accounts that exist.
StudentToken(i) == TokenOf("student", i, students[i].college_id)
AdminToken(i) == TokenOf("admin", i, admins[i].college_id)
AdminTokens == {AdminToken(i) : i \in DOMAIN admins}

\* POST /registrations by the students S for the events E, and one request
\* for each credential the guard or the role check turns away
RegisterRequests(S, E) ==
    {Request("register", StudentToken(i), e, NULL, NoQr) : i \in S, e \in E}
    \cup {Request("register", t, 1, NULL, NoQr) :
            t \in AdminTokens \cup {MissingToken, InvalidToken}}

\* POST /attendance/manual for the students S
ManualRequests(S) ==
    {Request("manual", t, e, s, NoQr) :
        t \in AdminTokens, e \in EventIds \cup {NotAnInt}, s \in S}
    \cup {Request("manual", t, 1, 1, NoQr) :
            t \in {StudentToken(1), MissingToken, InvalidToken}}

\* POST /attendance/qr-checkin by the students S: every payload over the
\* stored ids, secrets and colleges, and a qr_data that is not JSON
QrPayloads == {QrData(e, k, c) : e \in EventIds, k \in Secrets, c \in Colleges} \cup {NoQr}
QrRequests(S) ==
    {Request("qr", StudentToken(i), NULL, NULL, q) : i \in S, q \in QrPayloads}
    \cup {Request("qr", t, NULL, NULL, QrData(1, "k1", 1)) :
            t \in AdminTokens \cup {MissingToken, InvalidToken}}

\* POST /feedback by the students S for every event: a rating in range, one
\* out of range, and one request for each credential that is turned away
Ratings == {0, 1, 5}
FeedbackRequest(token, event_id, rating) ==
    [Request("feedback", token, event_id, NULL, NoQr) EXCEPT !.rating = rating]
FeedbackRequests(S) ==
    {FeedbackRequest(StudentToken(i), e, n) : i \in S, e \in EventIds, n \in Ratings}
    \cup {FeedbackRequest(t, 1, 5) : t \in AdminTokens \cup {MissingToken, InvalidToken}}

\* POST /notes by the students S for every event: two contents, an empty
\* one, and one request for each credential that is turned away
Contents == {"", "a", "b"}
NoteRequest(token, event_id, content) ==
    [Request("notes", token, event_id, NULL, NoQr) EXCEPT !.content = content]
NoteRequests(S) ==
    {NoteRequest(StudentToken(i), e, c) : i \in S, e \in EventIds, c \in Contents}
    \cup {NoteRequest(t, 1, "a") : t \in AdminTokens \cup {MissingToken, InvalidToken}}

\* GET /reports/<name> with no query parameter, by an admin whose
\* credential names any college, and one request for each credential that
\* is turned away
ReportRequests ==
    {Request(op, TokenOf("admin", a, c), NULL, NULL, NoQr) :
        op \in ReportOps, a \in AdminIds, c \in Colleges}
    \cup {Request("top-students", t, NULL, NULL, NoQr) :
            t \in {StudentToken(1), MissingToken, InvalidToken}}

\* POST /events by an admin with a max_participants in and out of range, and
\* one request for each credential that is turned away
EventRequest(token, max_participants) ==
    [Request("event", token, NULL, NULL, NoQr) EXCEPT !.max_participants = max_participants]
EventRequests ==
    {EventRequest(t, n) : t \in AdminTokens, n \in {0, 1}}
    \cup {EventRequest(t, 1) : t \in {StudentToken(1), MissingToken, InvalidToken}}

\* POST /admin/bulk-certificates
BulkRequests ==
    {Request("bulk", t, e, NULL, NoQr) : t \in AdminTokens, e \in EventIds \cup {NotAnInt}}
    \cup {Request("bulk", t, 1, NULL, NoQr) : t \in {StudentToken(1), MissingToken}}

RegisterStep(p) ==
    \/ RegSelectEvent(p)
    \/ RegCount(p)
    \/ RegMaxPos(p)
    \/ RegInsert(p)

AttendanceStep(p) ==
    \/ ManSelect(p)
    \/ ManInsert(p)
    \/ QrSelectEvent(p)
    \/ QrExisting(p)
    \/ QrInsert(p)

\* Admission requests of the students of college 1, interleaved at the granularity of
\* single SQL statements.
RaceRequests == RegisterRequests(HomeStudents, EventIds)
Next ==
    \E p \in Slots :
        \/ \E r \in RaceRequests : Start(p, r)
        \/ RegisterStep(p)
        \/ Finish(p)
Spec == Init /\ [][Next]_vars

\* Admission requests of all students one at a time: each request completes
\* before the next starts.
AdmitRequests == RegisterRequests(StudentIds, EventIds \cup {3})
NextAdmit ==
    \/ \E r \in AdmitRequests : Start(1, r)
    \/ RegisterStep(1)
    \/ Finish(1)
SpecAdmit == Init /\ [][NextAdmit]_vars

\* Admission and both check-in paths for three students, one request at a
\* time; a request that could add an attendance row is accepted while the
\* table holds fewer than MaxAttendance rows.
SerialStudents == {1, 2, OtherStudent}
SerialRequests ==
    RegisterRequests(SerialStudents, EventIds) \cup ManualRequests(SerialStudents)
        \cup QrRequests(SerialStudents)
Admitted(r) == r.op \in {"manual", "qr"} => Len(attendance) < MaxAttendance
NextSerial ==
    \/ \E r \in SerialRequests : Admitted(r) /\ Start(1, r)
    \/ RegisterStep(1)
    \/ AttendanceStep(1)
    \/ Finish(1)
SpecSerial == Init /\ [][NextSerial]_vars

FeedbackStep(p) ==
    \/ FbSelectAttendance(p)
    \/ FbSelectExisting(p)
    \/ FbInsert(p)

\* Admission, manual attendance and feedback for one student of each college,
\* and the reports, one request at a time.
FeedbackStudents == {1, OtherStudent}
FeedbackMenu ==
    RegisterRequests(FeedbackStudents, EventIds) \cup ManualRequests(FeedbackStudents)
        \cup FeedbackRequests(FeedbackStudents) \cup ReportRequests
NextFeedback ==
    \/ \E r \in FeedbackMenu : Admitted(r) /\ Start(1, r)
    \/ RegisterStep(1)
    \/ ManSelect(1)
    \/ ManInsert(1)
    \/ FeedbackStep(1)
    \/ ReportSelect(1)
    \/ Finish(1)
SpecFeedback == Init /\ [][NextFeedback]_vars

NotesStep(p) ==
    \/ NoteSelectRegistration(p)
    \/ NoteSelectExisting(p)
    \/ NoteUpdate(p)
    \/ NoteInsert(p)

\* Admission and notes for two students of college 1 and the student of
\* college 2, one request at a time.
NotesMenu == RegisterRequests(SerialStudents, EventIds) \cup NoteRequests(SerialStudents)
NextNotes ==
    \/ \E r \in NotesMenu : Start(1, r)
    \/ RegisterStep(1)
    \/ NotesStep(1)
    \/ Finish(1)
SpecNotes == Init /\ [][NextNotes]_vars

\* Credentials whose account has since been deactivated, moved to another
\* college or deleted: the payload names any college, and the account may be
\* gone.  Admission and manual attendance, one request at a time, while the
\* accounts are deactivated at any moment.
GuardStudents == {1, OtherStudent}
GuardMenu ==
    {Request("register", TokenOf("student", i, c), e, NULL, NoQr) :
        i \in GuardStudents \cup {GoneStudent}, c \in Colleges, e \in EventIds \cup {3}}
    \cup {Request("manual", TokenOf("admin", a, c), e, s, NoQr) :
            a \in AdminIds \cup {GoneAdmin}, c \in Colleges, e \in EventIds, s \in GuardStudents}
    \cup {Request(op, t, 1, 1, NoQr) :
            op \in {"register", "manual"}, t \in {MissingToken, InvalidToken}}
NextGuard ==
    \/ \E r \in GuardMenu : Admitted(r) /\ Start(1, r)
    \/ RegisterStep(1)
    \/ ManSelect(1)
    \/ ManInsert(1)
    \/ Finish(1)
    \/ \E i \in GuardStudents : DeactivateStudent(i)
    \/ \E a \in AdminIds : DeactivateAdmin(a)
SpecGuard == Init /\ [][NextGuard]_vars

\* Every operation, by two students and one admin of college 1, one request
\* at a time: each operation with the role it is reserved to and with the
\* other role.
ApiMenu ==
    RegisterRequests({1, 2}, {1})
    \cup ManualRequests({1})
    \cup {Request("qr", t, NULL, NULL, q) :
            t \in {StudentToken(1)} \cup AdminTokens,
            q \in {QrData(1, "k1", 1), QrData(1, "k2", 1), QrData(2, "k2", 2), NoQr}}
    \cup {FeedbackRequest(t, 1, n) : t \in {StudentToken(1)} \cup AdminTokens, n \in {0, 5}}
    \cup {NoteRequest(t, 1, c) : t \in {StudentToken(1)} \cup AdminTokens, c \in {"", "a"}}
    \cup {Request(op, t, NULL, NULL, NoQr) :
            op \in ReportOps, t \in {StudentToken(1)} \cup AdminTokens}
    \cup EventRequests
AdmittedApi(r) ==
    /\ Admitted(r)
    /\ r.op = "event" => Cardinality(DOMAIN events) < MaxEvents
\* The operations of ApiMenu with any statement failing at the database.
NextApi ==
    \/ \E r \in ApiMenu : AdmittedApi(r) /\ Start(1, r)
    \/ \E r \in ApiMenu : AdmittedApi(r) /\ GuardFailure(1, r)
    \/ RegisterStep(1)
    \/ AttendanceStep(1)
    \/ FeedbackStep(1)
    \/ NotesStep(1)
    \/ ReportSelect(1)
    \/ EventInsert(1)
    \/ StorageFailure(1)
    \/ Finish(1)
SpecApi == Init /\ [][NextApi]_vars

\* The same operations while the database executes every statement.
NextRoles ==
    \/ \E r \in ApiMenu : AdmittedApi(r) /\ Start(1, r)
    \/ RegisterStep(1)
    \/ AttendanceStep(1)
    \/ FeedbackStep(1)
    \/ NotesStep(1)
    \/ ReportSelect(1)
    \/ EventInsert(1)
    \/ Finish(1)
SpecRoles == Init /\ [][NextRoles]_vars

\* Certificates: students register, the admin marks attendance and then
\* generates the event's certificates in bulk, one request at a time; any
\* statement may be rejected by the database.
CertStudents == {1, 2}
CertMenu ==
    RegisterRequests(CertStudents, {1}) \cup ManualRequests(CertStudents) \cup BulkRequests
NextCert ==
    \/ \E r \in CertMenu : Admitted(r) /\ Start(1, r)
    \/ RegisterStep(1)
    \/ ManSelect(1)
    \/ ManInsert(1)
    \/ BulkSelect(1)
    \/ BulkInsert(1)
    \/ StorageFailure(1)
    \/ Finish(1)
SpecCert == Init /\ [][NextCert]_vars

\* =================================================================== claims
RowsOfEvent(e) == {i \in 1..Len(registrations) : registrations[i].event_id = e}
RowsOfPair(e, s) ==
    {i \in RowsOfEvent(e) : registrations[i].student_id = s /\ registrations[i].status # "cancelled"}
RowsWithStatus(e, st) == {i \in RowsOfEvent(e) : registrations[i].status = st}
AttendanceOf(att, e, s) ==
    {i \in 1..Len(att) : att[i].event_id = e /\ att[i].student_id = s}

\* the request in slot p carries the credential of an active student
ByActiveStudent(p) ==
    /\ req[p].token.state = "ok"
    /\ req[p].token.role = "student"
    /\ req[p].token.id \in DOMAIN students
    /\ students[req[p].token.id].is_active

\* an answered POST /registrations of an active student for an event of the student's college
AnsweredAdmission(p) ==
    /\ pc[p] = "done"
    /\ req[p].op = "register"
    /\ ByActiveStudent(p)
    /\ req[p].event_id \in DOMAIN events
    /\ events[req[p].event_id].college_id = students[req[p].token.id].college_id

Registered == [status |-> 200, message |-> "Registration registered", waitlist_position |-> NULL]
Waitlisted(n) == [status |-> 200, message |-> "Registration waitlisted", waitlist_position |-> n]

\* C1: with requests served one at a time, every active student of the event's
\* college is admitted, and the k-th admission to an event of capacity C is
\* answered status=registered with waitlist_position=null for k <= C and
\* status=waitlisted with waitlist_position=1 for k = C+1; the stored row
\* says the same.
C1_CapacityThenWaitlist ==
    \A p \in Slots :
        AnsweredAdmission(p) =>
            LET e == req[p].event_id
                C == events[e].max_participants
                k == Cardinality(RowsOfEvent(e))
                last == registrations[Len(registrations)]
            IN  /\ RowsOfPair(e, req[p].token.id) # {}
                /\ resp[p].status = 200 =>
                    /\ Len(registrations) \in RowsOfPair(e, req[p].token.id)
                    /\ k <= C => /\ resp[p] = Registered
                                 /\ last.status = "registered"
                                 /\ last.waitlist_position = NULL
                    /\ k = C + 1 => /\ resp[p] = Waitlisted(1)
                                    /\ last.status = "waitlisted"
                                    /\ last.waitlist_position = 1

\* the (C+1)-th student of a capacity-MaxCapacity event has just been waitlisted at position 1
C1_Witness ==
    \E p \in Slots :
        /\ AnsweredAdmission(p)
        /\ events[req[p].event_id].max_participants = MaxCapacity
        /\ Cardinality(RowsOfEvent(req[p].event_id)) = MaxCapacity + 1
        /\ resp[p] = Waitlisted(1)

\* C2: with requests served one at a time, the waitlist positions of an
\* event's N waitlisted registrations are exactly 1..N, and a registration
\* waitlisted later (a larger id) holds a strictly larger position.
C2_DenseWaitlist ==
    \A e \in DOMAIN events :
        LET W == RowsWithStatus(e, "waitlisted") IN
        /\ {registrations[i].waitlist_position : i \in W} = 1..Cardinality(W)
        /\ \A i, j \in W :
              i < j => registrations[i].waitlist_position < registrations[j].waitlist_position

\* two students are waitlisted for one event
C2_Witness == \E e \in DOMAIN events : Cardinality(RowsWithStatus(e, "waitlisted")) >= 2

\* C3: under any interleaving of admission requests there is at most one
\* non-cancelled registration row per (event_id, student_id).
C3_UniqueRegistration ==
    \A i, j \in 1..Len(registrations) :
        (/\ i < j
         /\ registrations[i].event_id = registrations[j].event_id
         /\ registrations[i].student_id = registrations[j].student_id)
        => (registrations[i].status = "cancelled" \/ registrations[j].status = "cancelled")

\* two overlapping requests of one student for one event of capacity 1: both
\* counted no registered row, one inserted, the other's INSERT was refused
C3_Witness ==
    \E p, q \in Slots :
        /\ p # q
        /\ pc[p] = "done" /\ pc[q] = "done"
        /\ req[p].op = "register" /\ req[q] = req[p]
        /\ ByActiveStudent(p)
        /\ events[req[p].event_id].max_participants = 1
        /\ loc[p].status = "registered" /\ loc[q].status = "registered"
        /\ resp[q].status = 200
        /\ resp[p].status = 500
        /\ Cardinality(RowsOfPair(req[p].event_id, req[p].token.id)) = 1

\* C4 (as claimed): a POST /registrations of a student who already holds a
\* non-cancelled registration for the event is answered 400 (Conflict).
C4_DuplicateIsConflict ==
    \A p \in Slots :
        (/\ AnsweredAdmission(p)
         /\ resp[p].status # 200
         /\ RowsOfPair(req[p].event_id, req[p].token.id) # {})
        => resp[p].status = 400

\* C5: with requests served one at a time, the number of status=registered
\* rows of an event never exceeds its capacity.
C5_RegisteredWithinCapacity ==
    \A e \in DOMAIN events :
        Cardinality(RowsWithStatus(e, "registered")) <= events[e].max_participants

\* an event is full and a further student has been turned to the waitlist
C5_Witness ==
    \E e \in DOMAIN events :
        /\ Cardinality(RowsWithStatus(e, "registered")) = events[e].max_participants
        /\ RowsWithStatus(e, "waitlisted") # {}

\* the payload's event_id, secret and college_id are those of one stored event
PayloadIsStoredEvent(qr) ==
    \E e \in DOMAIN events :
        /\ qr.event_id = e
        /\ qr.secret = events[e].qr_secret
        /\ qr.college_id = events[e].college_id

\* C6: a step of a QR check-in adds an attendance row only if the payload's
\* event_id, secret and college_id all equal those of one stored event.
C6_QrInsertOnlyOnMatch ==
    [][\A p \in Slots :
          (req[p].op = "qr" /\ pc'[p] # pc[p] /\ attendance' # attendance)
          => PayloadIsStoredEvent(req[p].qr)]_vars

\* a QR check-in with a matching payload has recorded the attendance
C6_Witness ==
    \E p \in Slots :
        /\ pc[p] = "done" /\ req[p].op = "qr"
        /\ PayloadIsStoredEvent(req[p].qr)
        /\ resp[p] = Message(200, "Checked in successfully")
        /\ AttendanceOf(attendance, req[p].qr.event_id, req[p].token.id) # {}

\* an answered QR check-in of an active student whose well-formed payload
\* differs from every stored event in at least one field
AnsweredBadProof(p) ==
    /\ pc[p] = "done"
    /\ req[p].op = "qr"
    /\ ByActiveStudent(p)
    /\ req[p].qr.json
    /\ ~PayloadIsStoredEvent(req[p].qr)

C8_QrCheckinIdempotent ==
    [][\A p \in Slots :
          (req[p].op = "qr" /\ pc[p] \in {"qr_existing", "qr_insert"} /\ pc'[p] = "done")
          => LET e == req[p].qr.event_id
                 s == req[p].token.id
             IN  IF AttendanceOf(attendance, e, s) # {}
                 THEN /\ resp'[p] = Error(400, "Already checked in")
                      /\ attendance' = attendance
                 ELSE /\ resp'[p].status = 200
                      /\ Cardinality(AttendanceOf(attendance', e, s)) = 1]_vars

\* a repeated QR check-in has been refused and the pair still has one row
C8_Witness ==
    \E p \in Slots :
        /\ pc[p] = "done" /\ req[p].op = "qr"
        /\ resp[p] = Error(400, "Already checked in")
        /\ Cardinality(AttendanceOf(attendance, req[p].qr.event_id, req[p].token.id)) = 1

\* C9 (as claimed): at most one attendance row per (event_id, student_id).
C9_OneAttendancePerPair ==
    \A i, j \in 1..Len(attendance) :
        (attendance[i].event_id = attendance[j].event_id
         /\ attendance[i].student_id = attendance[j].student_id) => i = j

\* C10: a POST /attendance/manual whose SELECT finds no status=registered
\* registration for (event_id, student_id) is answered 400 and adds no
\* attendance row.
C10_ManualNeedsRegistered ==
    [][\A p \in Slots :
          (/\ req[p].op = "manual"
           /\ pc[p] = "man_select" /\ pc'[p] # pc[p]
           /\ RowsOfPair(req[p].event_id, req[p].student_id)
                \cap RowsWithStatus(req[p].event_id, "registered") = {})
          => /\ pc'[p] = "done"
             /\ resp'[p].status = 400
             /\ attendance' = attendance]_vars

\* manual attendance for a student who is only waitlisted has been refused
C10_Witness ==
    \E p \in Slots :
        /\ pc[p] = "done" /\ req[p].op = "manual"
        /\ resp[p] = Error(400, "Student not registered for event")
        /\ RowsOfPair(req[p].event_id, req[p].student_id) # {}
        /\ RowsOfPair(req[p].event_id, req[p].student_id)
              \subseteq RowsWithStatus(req[p].event_id, "waitlisted")
        /\ attendance = <<>>

\* C11: an attendance row is only ever appended, and the step that appends
\* the row for (event, student) is either the INSERT of a manual mark while a
\* non-cancelled registration for that (event, student) exists, or the INSERT
\* of a QR check-in of that student whose payload matches the stored id,
\* secret and college_id of that event; no other step changes the table.
C11_AttendanceNeedsRegistrationOrProof ==
    [][attendance' # attendance =>
        \E p \in Slots :
            \E e \in DOMAIN events, s \in DOMAIN students :
                /\ Len(attendance') = Len(attendance) + 1
                /\ SubSeq(attendance', 1, Len(attendance)) = attendance
                /\ attendance'[Len(attendance')].event_id = e
                /\ attendance'[Len(attendance')].student_id = s
                /\ \/ /\ req[p].op = "manual" /\ pc[p] = "man_insert"
                      /\ req[p].event_id = e /\ req[p].student_id = s
                      /\ RowsOfPair(e, s) # {}
                   \/ /\ req[p].op = "qr" /\ pc[p] = "qr_insert"
                      /\ req[p].qr.event_id = e /\ req[p].token.id = s
                      /\ PayloadIsStoredEvent(req[p].qr)]_vars

\* a manual mark has added the second attendance row, for a registered
\* student; the first row is a QR check-in of a student with no registration
C11_Witness ==
    \E p \in Slots :
        /\ pc[p] = "done" /\ req[p].op = "manual"
        /\ resp[p] = Message(200, "Attendance marked successfully")
        /\ Len(attendance) = 2
        /\ attendance[2].event_id = req[p].event_id
        /\ attendance[2].student_id = req[p].student_id
        /\ RowsOfPair(req[p].event_id, req[p].student_id) # {}
        /\ RowsOfPair(attendance[1].event_id, attendance[1].student_id) = {}

\* C12: a POST /feedback whose student has no attendance row for the event
\* with the student's own college_id is answered 400 and adds no feedback
\* row; a step that adds a feedback row for (event, student) is taken while
\* an attendance row for that (event, student) exists.
C12_FeedbackNeedsAttendance ==
    [][\A p \in Slots :
          /\ (/\ req[p].op = "feedback"
               /\ pc[p] = "fb_attendance" /\ pc'[p] # pc[p]
               /\ \A i \in AttendanceOf(attendance, req[p].event_id, req[p].token.id) :
                     attendance[i].college_id # students[req[p].token.id].college_id)
              => /\ pc'[p] = "done"
                 /\ resp'[p].status = 400
                 /\ feedback' = feedback
          /\ (pc'[p] # pc[p] /\ feedback' # feedback)
              => /\ req[p].op = "feedback"
                 /\ feedback' = Append(feedback, feedback'[Len(feedback')])
                 /\ feedback'[Len(feedback')].event_id = req[p].event_id
                 /\ feedback'[Len(feedback')].student_id = req[p].token.id
                 /\ AttendanceOf(attendance, req[p].event_id, req[p].token.id) # {}]_vars

\* one student's feedback is stored, and a student whose only attendance row
\* for the event carries another college's id has been refused
C12_Witness ==
    \E p \in Slots :
        /\ pc[p] = "done" /\ req[p].op = "feedback"
        /\ resp[p] = Error(400, "Can only provide feedback for events you attended")
        /\ AttendanceOf(attendance, req[p].event_id, req[p].token.id) # {}
        /\ feedback # <<>>
        /\ \A i \in 1..Len(feedback) : feedback[i].student_id # req[p].token.id

NotesOf(ns, e, s) == {i \in 1..Len(ns) : ns[i].event_id = e /\ ns[i].student_id = s}

\* C13: a POST /notes whose student has no registration for the event with
\* the student's own college_id is answered 400 and leaves the notes table
\* unchanged; a step that creates or updates the note of (event, student) is
\* taken while a registration for that (event, student) exists.
C13_NotesNeedRegistration ==
    [][\A p \in Slots :
          /\ (/\ req[p].op = "notes"
               /\ pc[p] = "note_registration" /\ pc'[p] # pc[p]
               /\ \A i \in RowsOfEvent(req[p].event_id) :
                     \/ registrations[i].student_id # req[p].token.id
                     \/ registrations[i].college_id # students[req[p].token.id].college_id)
              => /\ pc'[p] = "done"
                 /\ resp'[p].status = 400
                 /\ notes' = notes
          /\ (pc'[p] # pc[p] /\ notes' # notes)
              => /\ req[p].op = "notes"
                 /\ \A i \in 1..Len(notes') :
                       (i > Len(notes) \/ notes'[i] # notes[i])
                       => /\ notes'[i].event_id = req[p].event_id
                          /\ notes'[i].student_id = req[p].token.id
                 /\ \E i \in RowsOfEvent(req[p].event_id) :
                       registrations[i].student_id = req[p].token.id]_vars

\* a student with no registration for the event has been refused while
\* another student's note for that event is stored
C13_Witness ==
    \E p \in Slots :
        /\ pc[p] = "done" /\ req[p].op = "notes"
        /\ resp[p] = Error(400, "Can only create notes for events you are registered for")
        /\ \A i \in RowsOfEvent(req[p].event_id) : registrations[i].student_id # req[p].token.id
        /\ \E i \in 1..Len(notes) : notes[i].event_id = req[p].event_id
        /\ NotesOf(notes, req[p].event_id, req[p].token.id) = {}

\* C20: with requests served one at a time, a POST /notes that completes its
\* write leaves exactly one note row for the (event, student), holding the
\* content of that request: the first such request appends the row, every
\* later one rewrites the content of the same row, and no other row changes.
C20_NotesUpsert ==
    [][\A p \in Slots :
          (req[p].op = "notes" /\ pc[p] \in {"note_update", "note_insert"} /\ pc'[p] = "done")
          => LET e == req[p].event_id
                 s == req[p].token.id
                 old == NotesOf(notes, e, s)
                 new == NotesOf(notes', e, s)
             IN  /\ Cardinality(new) = 1
                 /\ \A i \in new : notes'[i].content = req[p].content
                 /\ \A i \in 1..Len(notes) : i \notin old => notes'[i] = notes[i]
                 /\ IF old = {}
                    THEN /\ Len(notes') = Len(notes) + 1
                         /\ new = {Len(notes')}
                         /\ resp'[p] = Message(200, "Note created successfully")
                    ELSE /\ Len(notes') = Len(notes)
                         /\ new = old
                         /\ resp'[p] = Message(200, "Note updated successfully")]_vars

\* a student's second note for an event has replaced the content of the
\* first in the same row, next to another student's note
C20_Witness ==
    \E p \in Slots :
        /\ pc[p] = "done" /\ req[p].op = "notes"
        /\ resp[p] = Message(200, "Note updated successfully")
        /\ req[p].content = "b"
        /\ NotesOf(notes, req[p].event_id, req[p].token.id) = {1}
        /\ notes[1].content = "b"
        /\ Len(notes) = 2

\* the account a signed credential names has no row or is inactive
AccountGone(t) ==
    IF t.role = "student"
    THEN t.id \notin DOMAIN students \/ ~students[t.id].is_active
    ELSE t.id \notin DOMAIN admins \/ ~admins[t.id].is_active

\* the college_id of the account row a signed credential names
LiveCollege(t) ==
    IF t.role = "student" THEN students[t.id].college_id ELSE admins[t.id].college_id

\* C14: a request that arrives with a signed credential of an account that is
\* inactive or has no row at that moment is answered 403 in the step of its
\* arrival, before any statement of the handler, and no table changes;
\* accounts are deactivated at any moment after the credential was issued.
C14_InactiveAccountForbidden ==
    [][\A p \in Slots :
          (/\ pc[p] = "idle" /\ pc'[p] # "idle"
           /\ req'[p].token.state = "ok"
           /\ AccountGone(req'[p].token))
          => /\ pc'[p] = "done"
             /\ resp'[p].status = 403
             /\ tables' = tables]_vars

\* a student who registered and was then deactivated has been refused by the
\* guard
C14_Witness ==
    \E p \in Slots :
        /\ pc[p] = "done" /\ req[p].op = "register"
        /\ req[p].token.state = "ok"
        /\ req[p].token.id \in DOMAIN students
        /\ ~students[req[p].token.id].is_active
        /\ resp[p] = Error(403, "Student account not found or inactive")
        /\ \E i \in 1..Len(registrations) : registrations[i].student_id = req[p].token.id

\* C15: while a handler runs, the identity it reads is the credential's id
\* and role with the college_id of the live account row, whatever college_id
\* the credential's payload carries; every registration row carries the
\* college_id of its student's account and every manually marked attendance
\* row the college_id of an admin's account.
C15_CollegeFromLiveAccount ==
    /\ \A p \in Slots :
          pc[p] \notin {"idle", "done"} =>
              user[p] = [id |-> req[p].token.id, role |-> req[p].token.role,
                         college_id |-> LiveCollege(req[p].token)]
    /\ \A i \in 1..Len(registrations) :
          registrations[i].college_id = students[registrations[i].student_id].college_id
    /\ \A i \in 1..Len(attendance) :
          \E a \in DOMAIN admins : attendance[i].college_id = admins[a].college_id

\* a student of college 2 whose credential names college 1 has been
\* registered for the event of college 2, in a row of college 2
C15_Witness ==
    \E p \in Slots :
        /\ pc[p] = "done" /\ req[p].op = "register"
        /\ resp[p].status = 200
        /\ req[p].token.college_id # students[req[p].token.id].college_id
        /\ registrations[Len(registrations)].student_id = req[p].token.id
        /\ registrations[Len(registrations)].college_id = events[req[p].event_id].college_id
        /\ registrations[Len(registrations)].college_id # req[p].token.college_id

\* C16 (as claimed): a request with a missing or an unverifiable credential
\* is answered 401, and the guard answers 403 to a verified credential whose
\* account is inactive or has no row.
C16_GuardStatus ==
    \A p \in Slots :
        pc[p] = "done" =>
            /\ req[p].token.state \in {"missing", "invalid"} => resp[p].status = 401
            /\ resp[p].status = 403 /\ user[p] = NoUser => req[p].token.state = "ok"

\* C19: a POST /registrations that reaches its event lookup with an event_id
\* that no event has, or that an event of another college than the caller's
\* account has, is answered 404 'Event not found' in that step and adds no
\* registration row.
C19_UnknownEventNotFound ==
    [][\A p \in Slots :
          (/\ req[p].op = "register"
           /\ pc[p] = "reg_event" /\ pc'[p] # pc[p]
           /\ \/ req[p].event_id \notin DOMAIN events
              \/ events[req[p].event_id].college_id # LiveCollege(req[p].token))
          => /\ pc'[p] = "done"
             /\ resp'[p] = Error(404, "Event not found")
             /\ registrations' = registrations]_vars

\* a student whose credential names the event's college, but whose account
\* is of another college, has been answered 404 and holds no registration
C19_Witness ==
    \E p \in Slots :
        /\ pc[p] = "done" /\ req[p].op = "register"
        /\ resp[p] = Error(404, "Event not found")
        /\ req[p].event_id \in DOMAIN events
        /\ req[p].token.college_id = events[req[p].event_id].college_id
        /\ LiveCollege(req[p].token) # events[req[p].event_id].college_id
        /\ RowsOfPair(req[p].event_id, req[p].token.id) = {}

\* C17 (as claimed): every registration row and every attendance row carries
\* the college_id of the event it references and of the student it
\* references.
C17_RowsWithinTenant ==
    /\ \A i \in 1..Len(registrations) :
          /\ registrations[i].college_id = events[registrations[i].event_id].college_id
          /\ registrations[i].college_id = students[registrations[i].student_id].college_id
    /\ \A i \in 1..Len(attendance) :
          /\ attendance[i].college_id = events[attendance[i].event_id].college_id
          /\ attendance[i].college_id = students[attendance[i].student_id].college_id

\* the rows of an answered report
ReturnedRows(p) ==
    CASE req[p].op = "leaderboard" -> resp[p].leaderboard
      [] req[p].op = "top-students" -> resp[p].top_students
      [] OTHER -> resp[p].report

\* C18: every row an admin gets from event-popularity, attendance-percentage
\* or average-feedback is an event, and every row from student-participation,
\* leaderboard or top-students is a student, whose college_id is that of the
\* admin's account row, whatever college the credential names.
C18_ReportsWithinTenant ==
    \A p \in Slots :
        (pc[p] = "done" /\ req[p].op \in ReportOps /\ resp[p].status = 200)
        => \A row \in ReturnedRows(p) :
              IF req[p].op \in {"event-popularity", "attendance-percentage", "average-feedback"}
              THEN /\ row.id \in DOMAIN events
                   /\ events[row.id].college_id = LiveCollege(req[p].token)
              ELSE /\ row.id \in DOMAIN students
                   /\ students[row.id].college_id = LiveCollege(req[p].token)

\* attendance-percentage, asked with a credential that names college 2 by the
\* admin of college 1, has returned the event of college 1 alone while the
\* event of college 2 has an attendance row
C18_Witness ==
    \E p \in Slots :
        /\ pc[p] = "done" /\ req[p].op = "attendance-percentage"
        /\ resp[p].status = 200
        /\ req[p].token.college_id # LiveCollege(req[p].token)
        /\ {row.id : row \in ReturnedRows(p)} = {1}
        /\ \E i \in 1..Len(attendance) : events[attendance[i].event_id].college_id = 2

\* C21: a POST /feedback that reaches its duplicate check while the student
\* has a feedback row for the event is answered 400 'Feedback already
\* submitted for this event' in that step and leaves the feedback table
\* unchanged; with requests served one at a time no step leaves two feedback
\* rows for one (event, student).
C21_DuplicateFeedbackRefused ==
    [][\A p \in Slots :
          /\ (/\ req[p].op = "feedback"
               /\ pc[p] = "fb_existing" /\ pc'[p] # pc[p]
               /\ \E i \in 1..Len(feedback) :
                     /\ feedback[i].event_id = req[p].event_id
                     /\ feedback[i].student_id = req[p].token.id)
              => /\ pc'[p] = "done"
                 /\ resp'[p] = Error(400, "Feedback already submitted for this event")
                 /\ feedback' = feedback
          /\ \A i, j \in 1..Len(feedback') :
                (/\ feedback'[i].event_id = feedback'[j].event_id
                 /\ feedback'[i].student_id = feedback'[j].student_id) => i = j]_vars

\* a student's second feedback for an event has been refused and the first,
\* with another rating, is still the only row
C21_Witness ==
    \E p \in Slots :
        /\ pc[p] = "done" /\ req[p].op = "feedback"
        /\ resp[p] = Error(400, "Feedback already submitted for this event")
        /\ Len(feedback) = 1
        /\ feedback[1].event_id = req[p].event_id
        /\ feedback[1].student_id = req[p].token.id
        /\ feedback[1].rating # req[p].rating

\* the INSERT of slot p's admission is taken and no unique key stops it
InsertsRegistration(p) ==
    /\ req[p].op = "register"
    /\ pc[p] = "reg_insert" /\ pc'[p] = "done"
    /\ RowsOfPair(req[p].event_id, req[p].token.id) = {}

\* C22: under any interleaving of admission requests, a request that counted
\* fewer registered rows than the capacity inserts a status=registered row
\* whatever the count has become by the time of its INSERT, so two requests
\* that both counted C-1 both insert and the count reaches C+1 (the state
\* C22_Witness); with two requests in flight the count never exceeds C+1.
C22_RegisteredInsertIgnoresCount ==
    [][\A p \in Slots :
          /\ (InsertsRegistration(p) /\ loc[p].status = "registered")
              => /\ resp'[p] = Registered
                 /\ RegisteredCount(registrations', req[p].event_id)
                      = RegisteredCount(registrations, req[p].event_id) + 1
          /\ \A e \in DOMAIN events :
                RegisteredCount(registrations', e)
                    <= events[e].max_participants + Cardinality(Slots) - 1]_vars

\* two students' overlapping requests for an event of capacity MaxCapacity
\* with one free slot have both been answered registered, and the event has
\* MaxCapacity + 1 registered rows
C22_Witness ==
    \E p, q \in Slots : \E e \in DOMAIN events :
        /\ p # q
        /\ pc[p] = "done" /\ pc[q] = "done"
        /\ req[p].op = "register" /\ req[q].op = "register"
        /\ req[p].event_id = e /\ req[q].event_id = e
        /\ req[p].token.id # req[q].token.id
        /\ resp[p] = Registered /\ resp[q] = Registered
        /\ events[e].max_participants = MaxCapacity
        /\ Cardinality(RowsWithStatus(e, "registered")) = MaxCapacity + 1
        /\ {registrations[Len(registrations)].student_id,
            registrations[Len(registrations) - 1].student_id}
              = {req[p].token.id, req[q].token.id}

\* C23: under any interleaving of admission requests, a request that found
\* the event full inserts a status=waitlisted row with the position it
\* computed from the MAX it read, whatever positions have been inserted
\* since, so two requests that read the same MAX insert the same position
\* (the state C23_Witness); with two requests in flight at most two rows of
\* an event share a position.
C23_WaitlistInsertKeepsPosition ==
    [][\A p \in Slots :
          /\ (InsertsRegistration(p) /\ loc[p].status = "waitlisted")
              => /\ resp'[p] = Waitlisted(loc[p].waitlist_position)
                 /\ registrations' = Append(registrations, registrations'[Len(registrations')])
                 /\ registrations'[Len(registrations')].status = "waitlisted"
                 /\ registrations'[Len(registrations')].waitlist_position
                      = loc[p].waitlist_position
          /\ \A i \in 1..Len(registrations') :
                registrations'[i].status = "waitlisted" =>
                    Cardinality({j \in 1..Len(registrations') :
                        /\ registrations'[j].event_id = registrations'[i].event_id
                        /\ registrations'[j].status = "waitlisted"
                        /\ registrations'[j].waitlist_position
                             = registrations'[i].waitlist_position}) <= Cardinality(Slots)]_vars

\* two students' overlapping requests for a full event have both been
\* answered waitlisted at position 1, and both rows are stored
C23_Witness ==
    \E p, q \in Slots : \E e \in DOMAIN events :
        /\ p # q
        /\ pc[p] = "done" /\ pc[q] = "done"
        /\ req[p].op = "register" /\ req[q].op = "register"
        /\ req[p].event_id = e /\ req[q].event_id = e
        /\ req[p].token.id # req[q].token.id
        /\ resp[p] = Waitlisted(1) /\ resp[q] = Waitlisted(1)
        /\ Cardinality({i \in RowsWithStatus(e, "waitlisted") :
                            registrations[i].waitlist_position = 1}) = 2

\* C28: under any interleaving of admission requests, no step lowers an
\* event's count of status=registered rows, and a request that counts the
\* registered rows of an event that already has a waitlisted row is turned to
\* the waitlist: a request that starts after a waitlisted insert completed is
\* never registered.
C28_NoOvertaking ==
    [][/\ \A e \in DOMAIN events :
            RegisteredCount(registrations', e) >= RegisteredCount(registrations, e)
       /\ \A p \in Slots :
            (/\ req[p].op = "register"
             /\ pc[p] = "reg_count" /\ pc'[p] # pc[p]
             /\ RowsWithStatus(req[p].event_id, "waitlisted") # {})
            => /\ pc'[p] = "reg_maxpos"
               /\ loc'[p].status = "waitlisted"]_vars

\* the only request in flight has counted the rows of a full event that
\* already has a waitlisted row, and is on its way to the waitlist
C28_Witness ==
    \E p, q \in Slots :
        /\ p # q /\ pc[q] = "idle"
        /\ pc[p] = "reg_maxpos" /\ req[p].op = "register"
        /\ loc[p].status = "waitlisted"
        /\ RowsWithStatus(req[p].event_id, "waitlisted") # {}
        /\ RowsOfPair(req[p].event_id, req[p].token.id) = {}

\* C27 (as claimed): a QR check-in of an active student whose qr_data is
\* missing or is not JSON is answered 400 and adds no attendance row.
C27_MalformedQrIsValidationError ==
    \A p \in Slots :
        (pc[p] = "done" /\ req[p].op = "qr" /\ ByActiveStudent(p) /\ ~req[p].qr.json)
        => /\ resp[p].status = 400
           /\ AttendanceOf(attendance, req[p].qr.event_id, req[p].token.id) = {}

\* the role an operation is reserved to
ReservedTo(op) ==
    IF op \in {"register", "qr", "feedback", "notes"} THEN "student" ELSE "admin"

\* C24: a request that arrives with the signed credential of a caller whose
\* role is not the one the operation is reserved to (student for POST
\* /registrations, /attendance/qr-checkin, /feedback and /notes; admin for
\* POST /events, /attendance/manual and the six reports) is answered 403 in
\* the step of its arrival and no table changes.
C24_WrongRoleForbidden ==
    [][\A p \in Slots :
          (/\ pc[p] = "idle" /\ pc'[p] # "idle"
           /\ req'[p].token.state = "ok"
           /\ req'[p].token.role # ReservedTo(req'[p].op))
          => /\ pc'[p] = "done"
             /\ resp'[p].status = 403
             /\ tables' = tables]_vars

\* an admin's POST /notes has been refused while a student's note is stored
C24_Witness ==
    \E p \in Slots :
        /\ pc[p] = "done" /\ req[p].op = "notes"
        /\ req[p].token.role = "admin"
        /\ resp[p] = Error(403, "Only students can create notes")
        /\ Len(notes) = 1

\* C25: no step removes or changes an attendance row: every row of the table
\* is the same row, at the same id, after every step.
C25_AttendanceRowsKept ==
    [][/\ Len(attendance') >= Len(attendance)
       /\ \A i \in 1..Len(attendance) : attendance'[i] = attendance[i]]_vars

\* a second attendance row, for another event, has been added after the first
C25_Witness ==
    /\ Len(attendance) = 2
    /\ attendance[1].event_id # attendance[2].event_id
    /\ \E p \in Slots : pc[p] = "done" /\ req[p].op = "manual" /\ resp[p].status = 200

\* C29: no step removes or changes a registration row: every row keeps its
\* status and waitlist_position, at the same id, after every step.
C29_RegistrationRowsKept ==
    [][/\ Len(registrations') >= Len(registrations)
       /\ \A i \in 1..Len(registrations) : registrations'[i] = registrations[i]]_vars

\* a waitlisted student is still waitlisted at position 1 after attendance
\* was marked for the registered student
C29_Witness ==
    /\ Len(registrations) = 2
    /\ registrations[1].status = "registered"
    /\ registrations[2].status = "waitlisted"
    /\ registrations[2].waitlist_position = 1
    /\ attendance # <<>>
    /\ \E p \in Slots : pc[p] = "done" /\ req[p].op = "manual" /\ resp[p].status = 200

\* C30: for POST /registrations, /attendance/manual, /attendance/qr-checkin,
\* /feedback and /notes, a step of a request that is not its last, or that
\* ends it with a 4xx or 5xx response (a statement refused by the database
\* included), leaves registrations, attendance, feedback and notes unchanged:
\* with requests served one at a time, a request that ends in an error leaves
\* the four tables as they were when it arrived.
C30_ErrorLeavesTables ==
    [][\A p \in Slots :
          (/\ req'[p].op \in {"register", "manual", "qr", "feedback", "notes"}
           /\ pc[p] # "done" /\ pc'[p] # pc[p]
           /\ pc'[p] = "done" => resp'[p].status >= 400)
          => <<registrations, attendance, feedback, notes>>'
                = <<registrations, attendance, feedback, notes>>]_vars

\* a manual mark for a registered student has ended in the handler's 500
\* and the attendance table is still empty
C30_Witness ==
    \E p \in Slots :
        /\ pc[p] = "done" /\ req[p].op = "manual"
        /\ resp[p] = Error(500, "Failed to mark attendance")
        /\ RowsOfPair(req[p].event_id, req[p].student_id)
              \cap RowsWithStatus(req[p].event_id, "registered") # {}
        /\ attendance = <<>>

\* the entries of the two lists of a bulk response that name student s
EntriesOf(r, s) ==
    Cardinality({i \in 1..Len(r.details.generated) : r.details.generated[i].student_id = s})
    + Cardinality({i \in 1..Len(r.details.failed) : r.details.failed[i].student_id = s})

\* a bulk-certificate request has sent its lists
AnsweredBulk(p) ==
    pc[p] = "done" /\ req[p].op = "bulk" /\ resp[p].status = 200

\* C26: when POST /admin/bulk-certificates has answered, every student it
\* selected as an attendee without a certificate has exactly one entry in the
\* 'generated' and 'failed' lists taken together.
C26_EachAttendeeOnce ==
    \A p \in Slots :
        AnsweredBulk(p) =>
            \A k \in 1..Len(loc[p].attendees) :
                EntriesOf(resp[p], loc[p].attendees[k].student_id) = 1

\* every selected row of a bulk-certificate request has one entry: the two
\* lists together hold the selected rows' students in the order selected, the
\* counts are the lists' lengths, and a generated entry is a stored certificate
BulkListsCoverSelection ==
    \A p \in Slots :
        AnsweredBulk(p) =>
            /\ resp[p].generated + resp[p].failed = Len(loc[p].attendees)
            /\ resp[p].generated = Len(resp[p].details.generated)
            /\ resp[p].failed = Len(resp[p].details.failed)
            /\ \A s \in DOMAIN students :
                  EntriesOf(resp[p], s)
                    = Cardinality({k \in 1..Len(loc[p].attendees) :
                                      loc[p].attendees[k].student_id = s})
            /\ \A i \in 1..Len(resp[p].details.generated) :
                  \E c \in 1..Len(certificates) :
                      /\ certificates[c].certificate_id
                            = resp[p].details.generated[i].certificate_id
                      /\ certificates[c].student_id
                            = resp[p].details.generated[i].student_id

\* once the loop has started the request ends with the 200 of res.json, and
\* only after the last selected row
BulkLoopCompletes ==
    [][\A p \in Slots :
          pc[p] = "bulk_insert" =>
              /\ pc'[p] \in {"bulk_insert", "done"}
              /\ pc'[p] = "done" <=> loc[p].next = Len(loc[p].attendees)
              /\ pc'[p] = "done" => resp'[p].status = 200]_vars

\* a bulk request over two selected rows whose first INSERT was rejected and
\* whose second was executed
BulkFailedThenGenerated ==
    \E p \in Slots :
        /\ AnsweredBulk(p)
        /\ Len(loc[p].attendees) = 2
        /\ resp[p].failed = 1 /\ resp[p].generated = 1
        /\ resp[p].details.failed[1].student_id = loc[p].attendees[1].student_id
        /\ resp[p].details.generated[1].student_id = loc[p].attendees[2].student_id
        /\ loc[p].attendees[1].student_id # loc[p].attendees[2].student_id

====
